---- MODULE Spec2Model ----
(* Model of scripts/run_migrations.py: a runner that submits a fixed list *)
(* of SQL migration files to a remote exec_sql endpoint, one at a time,   *)
(* and stops at the first failure.  Several independent runs of the tool  *)
(* share the local migrations directory and the remote database.          *)
EXTENDS Integers, Sequences, FiniteSets, TLC

(* ---------------------------------------------------------------- *)
(* Bounds and fixed data                                            *)
(* ---------------------------------------------------------------- *)

\* Independent runs (processes) of the tool that are considered.
Runs == {1, 2}

\* How many times the environment removes a file while runs are going on.
MaxRemovals == 1

\* The literal list of the script.
MIGRATIONS ==
  << "003_storage_buckets.sql",
     "004_analytics_views.sql",
     "20250104_oauth_tokens.sql",
     "20250104_speakers_tables.sql" >>

Files == { MIGRATIONS[k] : k \in 1..Len(MIGRATIONS) }

\* The module global `migrations` is what main() iterates; the loop is
\* generic in it.  The lists considered are the literal one and its prefixes
\* (the empty list included).
MigrationLists == { SubSeq(MIGRATIONS, 1, n) : n \in 0..Len(MIGRATIONS) }

\* State of a path of the migrations directory.
DiskStates == {"absent", "ok", "unreadable"}

\* Exceptions the remote call raises, all subclasses of Exception: the error
\* answer of the remote side (syntax error, permission denied), no
\* connection, no answer in time.
RemoteErrors == {"APIError", "ConnectError", "Timeout"}

\* Exceptions open()/read() raise for a path in a given state.
OpenErrors(st) ==
  IF st = "absent" THEN {"FileNotFoundError"}
  ELSE IF st = "unreadable" THEN {"PermissionError", "UnicodeDecodeError"}
  ELSE {}

AllOpenErrors == {"FileNotFoundError", "PermissionError", "UnicodeDecodeError"}

\* Classes derived from Exception: what `except Exception` handles.
ExceptionClasses == RemoteErrors \cup AllOpenErrors

VARIABLES
  migrations,  \* the list main() iterates
  disk,        \* path state of every file of the migrations directory
  removals,    \* number of removals the environment has made
  pc,          \* per run: position in the code
  idx,         \* per run: number of loop iterations started
  sql,         \* per run: text read from the current file
  err,         \* per run: the exception being handled
  success,     \* per run: value returned by run_migration
  exitcode,    \* per run: process exit code, -1 while running
  console,     \* per run: lines printed
  inflight,    \* requests sent to the remote endpoint and not yet answered
  db,          \* per run: queries the database executed for it, in order
  invoked,     \* per run: list positions run_migration was invoked for
  seen,        \* per run: result of exists() of every invocation
  submitted,   \* per run: list positions submitted to the remote endpoint
  raised       \* per run: exceptions raised inside run_migration

vars == << migrations, disk, removals, pc, idx, sql, err, success, exitcode,
           console, inflight, db, invoked, seen, submitted, raised >>

envVars == << migrations, disk, removals >>

(* ---------------------------------------------------------------- *)
(* Helpers                                                          *)
(* ---------------------------------------------------------------- *)

\* filepath.exists()
PathExists(d, f) == d[f] # "absent"

\* f.read(): the text of a file, identified by the file it comes from.
Content(f) == << "sql", f >>

\* str(e)
Str(e) == e

\* `for migration in migrations`: the list positions, in iteration order.
IterOrder_reversed(ms) == [ k \in 1..Len(ms) |-> Len(ms) + 1 - k ]

IterOrder(ms) == [ k \in 1..Len(ms) |-> k ]

\* List position and filename the run is working on.
Pos(r) == IterOrder(migrations)[idx[r]]

Cur(r) == migrations[Pos(r)]

\* `except Exception as e`
Catches_notimeout(e) == e \in ExceptionClasses \ {"Timeout"}

Catches(e) == e \in ExceptionClasses

Init ==
  /\ migrations \in MigrationLists
  /\ disk \in [Files -> DiskStates]
  /\ \A f \in Files : f \notin { migrations[k] : k \in 1..Len(migrations) }
                         => disk[f] = "absent"
  /\ removals = 0
  /\ pc = [r \in Runs |-> "start"]
  /\ idx = [r \in Runs |-> 0]
  /\ sql = [r \in Runs |-> << >>]
  /\ err = [r \in Runs |-> "none"]
  /\ success = [r \in Runs |-> TRUE]
  /\ exitcode = [r \in Runs |-> -1]
  /\ console = [r \in Runs |-> << >>]
  /\ inflight = {}
  /\ db = [r \in Runs |-> << >>]
  /\ invoked = [r \in Runs |-> << >>]
  /\ seen = [r \in Runs |-> << >>]
  /\ submitted = [r \in Runs |-> << >>]
  /\ raised = [r \in Runs |-> << >>]

(* ---------------------------------------------------------------- *)
(* main() and run_migration(), one action per step                  *)
(* ---------------------------------------------------------------- *)

\* main(): the header lines.
Start(r) ==
  /\ pc[r] = "start"
  /\ console' = [console EXCEPT ![r] = Append(@, << "header", Len(migrations) >>)]
  /\ pc' = [pc EXCEPT ![r] = "loop"]
  /\ UNCHANGED << envVars, idx, sql, err, success, exitcode, inflight, db,
                  invoked, seen, submitted, raised >>

\* main(): the for statement.  It either calls run_migration for the next
\* entry or, the list being exhausted, prints the summary and returns 0.
ForNext(r) ==
  /\ pc[r] = "loop"
  /\ IF idx[r] < Len(migrations)
       THEN /\ idx' = [idx EXCEPT ![r] = @ + 1]
            /\ invoked' = [invoked EXCEPT ![r] =
                             Append(@, IterOrder(migrations)[idx[r] + 1])]
            /\ pc' = [pc EXCEPT ![r] = "exists"]
            /\ UNCHANGED << console, exitcode >>
       ELSE /\ console' = [console EXCEPT ![r] = Append(@, << "completed" >>)]
            /\ exitcode' = [exitcode EXCEPT ![r] = 0]
            /\ pc' = [pc EXCEPT ![r] = "done"]
            /\ UNCHANGED << idx, invoked >>
  /\ UNCHANGED << envVars, sql, err, success, inflight, db, seen, submitted,
                  raised >>

\* The existence check reporting an absent file as a failure.
Exists_strict(r) ==
  /\ pc[r] = "exists"
  /\ seen' = [seen EXCEPT ![r] = Append(@, PathExists(disk, Cur(r)))]
  /\ IF ~ PathExists(disk, Cur(r))
       THEN /\ console' = [console EXCEPT ![r] = Append(@, << "skipped", Cur(r) >>)]
            /\ success' = [success EXCEPT ![r] = FALSE]
            /\ pc' = [pc EXCEPT ![r] = "check"]
       ELSE /\ pc' = [pc EXCEPT ![r] = "open"]
            /\ UNCHANGED << console, success >>
  /\ UNCHANGED << envVars, idx, sql, err, exitcode, inflight, db, invoked,
                  submitted, raised >>

\* The existence check also skipping a file whose text the database has
\* already executed (an "already applied" ledger).
Exists_ledger(r) ==
  /\ pc[r] = "exists"
  /\ seen' = [seen EXCEPT ![r] = Append(@, PathExists(disk, Cur(r)))]
  /\ IF \/ ~ PathExists(disk, Cur(r))
        \/ \E o \in Runs : \E k \in 1..Len(db[o]) : db[o][k] = Content(Cur(r))
       THEN /\ console' = [console EXCEPT ![r] = Append(@, << "skipped", Cur(r) >>)]
            /\ success' = [success EXCEPT ![r] = TRUE]
            /\ pc' = [pc EXCEPT ![r] = "check"]
       ELSE /\ pc' = [pc EXCEPT ![r] = "open"]
            /\ UNCHANGED << console, success >>
  /\ UNCHANGED << envVars, idx, sql, err, exitcode, inflight, db, invoked,
                  submitted, raised >>

\* run_migration(): the existence check.
Exists(r) ==
  /\ pc[r] = "exists"
  /\ seen' = [seen EXCEPT ![r] = Append(@, PathExists(disk, Cur(r)))]
  /\ IF ~ PathExists(disk, Cur(r))
       THEN /\ console' = [console EXCEPT ![r] = Append(@, << "skipped", Cur(r) >>)]
            /\ success' = [success EXCEPT ![r] = TRUE]
            /\ pc' = [pc EXCEPT ![r] = "check"]
       ELSE /\ pc' = [pc EXCEPT ![r] = "open"]
            /\ UNCHANGED << console, success >>
  /\ UNCHANGED << envVars, idx, sql, err, exitcode, inflight, db, invoked,
                  submitted, raised >>

\* An exception raised inside the try block: control goes to the handler when
\* the except clause matches, and leaves main() otherwise (the interpreter
\* then prints a traceback and exits with status 1).
Raise(r, e) ==
  /\ raised' = [raised EXCEPT ![r] = Append(@, e)]
  /\ err' = [err EXCEPT ![r] = e]
  /\ IF Catches(e)
       THEN /\ pc' = [pc EXCEPT ![r] = "except"]
            /\ UNCHANGED exitcode
       ELSE /\ pc' = [pc EXCEPT ![r] = "crashed"]
            /\ exitcode' = [exitcode EXCEPT ![r] = 1]

\* run_migration(): a file that cannot be read taken for a missing one.
OpenRead_lenient(r) ==
  /\ pc[r] = "open"
  /\ IF disk[Cur(r)] = "ok"
       THEN /\ sql' = [sql EXCEPT ![r] = Content(Cur(r))]
            /\ pc' = [pc EXCEPT ![r] = "rpc"]
            /\ UNCHANGED << err, exitcode, raised, console, success >>
       ELSE /\ console' = [console EXCEPT ![r] = Append(@, << "skipped", Cur(r) >>)]
            /\ success' = [success EXCEPT ![r] = TRUE]
            /\ pc' = [pc EXCEPT ![r] = "check"]
            /\ UNCHANGED << sql, err, exitcode, raised >>
  /\ UNCHANGED << envVars, idx, inflight, db, invoked, seen, submitted >>

\* run_migration(): open the file and read it whole, inside the try block.
OpenRead(r) ==
  /\ pc[r] = "open"
  /\ IF disk[Cur(r)] = "ok"
       THEN /\ sql' = [sql EXCEPT ![r] = Content(Cur(r))]
            /\ pc' = [pc EXCEPT ![r] = "rpc"]
            /\ UNCHANGED << err, exitcode, raised >>
       ELSE /\ \E e \in OpenErrors(disk[Cur(r)]) : Raise(r, e)
            /\ UNCHANGED sql
  /\ UNCHANGED << envVars, idx, success, console, inflight, db, invoked, seen,
                  submitted >>

\* run_migration(): supabase.rpc('exec_sql', {'query': sql}).execute() sends
\* the request; the call blocks until the answer.
RpcSend(r) ==
  /\ pc[r] = "rpc"
  /\ inflight' = inflight \cup { [run |-> r, pos |-> Pos(r), query |-> sql[r]] }
  /\ submitted' = [submitted EXCEPT ![r] = Append(@, Pos(r))]
  /\ pc' = [pc EXCEPT ![r] = "wait"]
  /\ UNCHANGED << envVars, idx, sql, err, success, exitcode, console, db,
                  invoked, seen, raised >>

\* The answer of the remote side: the database executed the query and the
\* call returns (the success line is printed and True returned), or the call
\* raises.
RpcReturn(r) ==
  /\ pc[r] = "wait"
  /\ \E q \in inflight :
       /\ q.run = r
       /\ inflight' = inflight \ {q}
       /\ \/ /\ db' = [db EXCEPT ![r] = Append(@, q.query)]
             /\ console' = [console EXCEPT ![r] = Append(@, << "applied", Cur(r) >>)]
             /\ success' = [success EXCEPT ![r] = TRUE]
             /\ pc' = [pc EXCEPT ![r] = "check"]
             /\ UNCHANGED << err, exitcode, raised >>
          \/ /\ \E e \in RemoteErrors : Raise(r, e)
             /\ UNCHANGED << db, console, success >>
  /\ UNCHANGED << envVars, idx, sql, invoked, seen, submitted >>

\* The handler returning True.
Except_swallow(r) ==
  /\ pc[r] = "except"
  /\ console' = [console EXCEPT ![r] = Append(@, << "error", Cur(r), Str(err[r]) >>)]
  /\ success' = [success EXCEPT ![r] = TRUE]
  /\ pc' = [pc EXCEPT ![r] = "check"]
  /\ UNCHANGED << envVars, idx, sql, err, exitcode, inflight, db, invoked,
                  seen, submitted, raised >>

\* The handler submitting the query again.
Except_retry(r) ==
  /\ pc[r] = "except"
  /\ console' = [console EXCEPT ![r] = Append(@, << "error", Cur(r), Str(err[r]) >>)]
  /\ IF err[r] \in RemoteErrors /\ Len(submitted[r]) <= Len(migrations)
       THEN /\ pc' = [pc EXCEPT ![r] = "rpc"]
            /\ UNCHANGED success
       ELSE /\ success' = [success EXCEPT ![r] = FALSE]
            /\ pc' = [pc EXCEPT ![r] = "check"]
  /\ UNCHANGED << envVars, idx, sql, err, exitcode, inflight, db, invoked,
                  seen, submitted, raised >>

\* The handler undoing what the run applied.
Except_rollback(r) ==
  /\ pc[r] = "except"
  /\ console' = [console EXCEPT ![r] = Append(@, << "error", Cur(r), Str(err[r]) >>)]
  /\ success' = [success EXCEPT ![r] = FALSE]
  /\ db' = [db EXCEPT ![r] = << >>]
  /\ pc' = [pc EXCEPT ![r] = "check"]
  /\ UNCHANGED << envVars, idx, sql, err, exitcode, inflight, invoked, seen,
                  submitted, raised >>

\* run_migration(): the except clause prints the error and returns False.
Except(r) ==
  /\ pc[r] = "except"
  /\ console' = [console EXCEPT ![r] = Append(@, << "error", Cur(r), Str(err[r]) >>)]
  /\ success' = [success EXCEPT ![r] = FALSE]
  /\ pc' = [pc EXCEPT ![r] = "check"]
  /\ UNCHANGED << envVars, idx, sql, err, exitcode, inflight, db, invoked,
                  seen, submitted, raised >>

\* main() going on with the next entry whatever run_migration returned.
CheckSuccess_continue(r) ==
  /\ pc[r] = "check"
  /\ pc' = [pc EXCEPT ![r] = "loop"]
  /\ UNCHANGED << envVars, idx, sql, err, success, exitcode, console,
                  inflight, db, invoked, seen, submitted, raised >>

\* main() starting the list over after a failure.
CheckSuccess_restart(r) ==
  /\ pc[r] = "check"
  /\ IF ~ success[r]
       THEN IF Len(invoked[r]) <= Len(migrations)
              THEN /\ idx' = [idx EXCEPT ![r] = 0]
                   /\ pc' = [pc EXCEPT ![r] = "loop"]
                   /\ UNCHANGED << console, exitcode >>
              ELSE /\ console' = [console EXCEPT ![r] = Append(@, << "failed", Cur(r) >>)]
                   /\ exitcode' = [exitcode EXCEPT ![r] = 1]
                   /\ pc' = [pc EXCEPT ![r] = "done"]
                   /\ UNCHANGED idx
       ELSE /\ pc' = [pc EXCEPT ![r] = "loop"]
            /\ UNCHANGED << console, exitcode, idx >>
  /\ UNCHANGED << envVars, sql, err, success, inflight, db, invoked,
                  seen, submitted, raised >>

\* main(): `if not success`: print the failure and return 1, else loop.
CheckSuccess(r) ==
  /\ pc[r] = "check"
  /\ IF ~ success[r]
       THEN /\ console' = [console EXCEPT ![r] = Append(@, << "failed", Cur(r) >>)]
            /\ exitcode' = [exitcode EXCEPT ![r] = 1]
            /\ pc' = [pc EXCEPT ![r] = "done"]
       ELSE /\ pc' = [pc EXCEPT ![r] = "loop"]
            /\ UNCHANGED << console, exitcode >>
  /\ UNCHANGED << envVars, idx, sql, err, success, inflight, db, invoked,
                  seen, submitted, raised >>

\* The environment removes a file of the migrations directory.
RemoveFile(f) ==
  /\ removals < MaxRemovals
  /\ disk[f] # "absent"
  /\ disk' = [disk EXCEPT ![f] = "absent"]
  /\ removals' = removals + 1
  /\ UNCHANGED << migrations, pc, idx, sql, err, success, exitcode, console,
                  inflight, db, invoked, seen, submitted, raised >>

RunStep(r) ==
  \/ Start(r)
  \/ ForNext(r)
  \/ Exists(r)
  \/ OpenRead(r)
  \/ RpcSend(r)
  \/ RpcReturn(r)
  \/ Except(r)
  \/ CheckSuccess(r)

Next ==
  \/ \E r \in Runs : RunStep(r)
  \/ \E f \in Files : RemoveFile(f)

Spec == Init /\ [][Next]_vars

\* Every step of a run is eventually taken: the interpreter keeps executing
\* and every remote call returns or raises.
FairSpec == Spec /\ \A r \in Runs : WF_vars(RunStep(r))

TypeOK ==
  /\ migrations \in MigrationLists
  /\ disk \in [Files -> DiskStates]
  /\ pc \in [Runs -> {"start", "loop", "exists", "open", "rpc", "wait",
                      "except", "check", "done", "crashed"}]
  /\ idx \in [Runs -> 0..Len(migrations)]
  /\ exitcode \in [Runs -> {-1, 0, 1}]
  /\ success \in [Runs -> BOOLEAN]

(* ---------------------------------------------------------------- *)
(* Properties                                                       *)
(* ---------------------------------------------------------------- *)

IsOutcome(line) == line[1] \in {"applied", "skipped", "error"}

\* The per-migration progress lines a run has printed, in order.
Outcomes(r) == SelectSeq(console[r], IsOutcome)

Terminated(r) == pc[r] \in {"done", "crashed"}

HasError(r) == \E k \in 1..Len(Outcomes(r)) : Outcomes(r)[k][1] = "error"

Range(s) == { s[k] : k \in 1..Len(s) }

NoDuplicates(s) == \A j, k \in 1..Len(s) : j # k => s[j] # s[k]

Increasing(s) == \A j, k \in 1..Len(s) : j < k => s[j] < s[k]

IsPrefix(s, t) == Len(s) <= Len(t) /\ SubSeq(t, 1, Len(s)) = s

\* Every entry of the list has an outcome, and it is Applied or SkippedMissing.
AllAppliedOrSkipped(r) ==
  /\ Len(Outcomes(r)) = Len(migrations)
  /\ \A k \in 1..Len(migrations) :
       /\ Outcomes(r)[k][1] \in {"applied", "skipped"}
       /\ Outcomes(r)[k][2] = migrations[k]

\* C1: a run that has ended has exit code 0 if and only if every migration
\* of the list resulted in Applied or SkippedMissing, and exit code 1
\* otherwise.
C1_ExitCodeIffAllOk ==
  \A r \in Runs :
    Terminated(r) =>
      /\ exitcode[r] \in {0, 1}
      /\ (exitcode[r] = 0) <=> AllAppliedOrSkipped(r)

C1_Witness ==
  /\ Len(migrations) = 4
  /\ pc[1] = "done" /\ exitcode[1] = 0
  /\ pc[2] = "done" /\ exitcode[2] = 1
  /\ \E k \in 1..4 : Outcomes(1)[k][1] = "skipped"
  /\ \E k \in 1..4 : Outcomes(1)[k][1] = "applied"

\* C2: once run_migration has failed for the entry at position i, the run
\* stops: it is in the failure branch of main or has ended, and
\* run_migration is not invoked (no existence check, no read, no remote
\* call) for any later position.
C2_FailFast ==
  \A r \in Runs :
    \A k \in 1..Len(Outcomes(r)) :
      Outcomes(r)[k][1] = "error" =>
        /\ pc[r] \in {"check", "done"}
        /\ Len(invoked[r]) = k
        /\ invoked[r][k] = k
        /\ Len(seen[r]) = k
        /\ \A p \in Range(submitted[r]) : p <= k
        /\ \A q \in inflight : q.run # r

C2_Witness ==
  \E r \in Runs :
    /\ pc[r] = "done" /\ exitcode[r] = 1
    /\ Len(migrations) = 4
    /\ Len(invoked[r]) = 2
    /\ disk[migrations[3]] = "ok"
    /\ Outcomes(r)[2][1] = "error"

\* C3: an entry whose file does not exist is a no-op and not an error: no
\* remote call is made for it, run_migration prints it as skipped and
\* returns success, the run goes on, and a run in which nothing else fails
\* handles every entry and exits 0.
C3_MissingIsNoOp ==
  \A r \in Runs :
    \A k \in 1..Len(seen[r]) :
      ~ seen[r][k] =>
        /\ invoked[r][k] \notin Range(submitted[r])
        /\ Len(Outcomes(r)) >= k
        /\ Outcomes(r)[k] = << "skipped", migrations[invoked[r][k]] >>
        /\ (pc[r] = "check" /\ Len(Outcomes(r)) = k) => success[r]
        /\ (Terminated(r) /\ ~ HasError(r)) =>
              /\ exitcode[r] = 0
              /\ Len(invoked[r]) = Len(migrations)

C3_Witness ==
  \E r \in Runs :
    /\ pc[r] = "done" /\ exitcode[r] = 0
    /\ Len(migrations) >= 3
    /\ seen[r][1] /\ ~ seen[r][2] /\ seen[r][3]
    /\ Outcomes(r)[3][1] = "applied"

\* C4: an exception raised by the remote call is caught inside
\* run_migration: it never leaves run_migration uncaught, run_migration
\* prints it as the error of the entry and returns False, and the run ends
\* in the failure branch of main with exit code 1.
C4_RemoteErrorCaught ==
  \A r \in Runs :
    /\ pc[r] # "crashed"
    /\ \A k \in 1..Len(raised[r]) :
         raised[r][k] \in RemoteErrors =>
           /\ pc[r] \in {"except", "check", "done"}
           /\ pc[r] \in {"check", "done"} =>
                /\ ~ success[r]
                /\ Outcomes(r)[Len(Outcomes(r))] =
                     << "error", Cur(r), Str(raised[r][k]) >>
           /\ pc[r] = "done" =>
                /\ exitcode[r] = 1
                /\ console[r][Len(console[r])] = << "failed", Cur(r) >>

C4_Witness ==
  \E r \in Runs :
    /\ pc[r] = "done"
    /\ raised[r] = << "Timeout" >>
    /\ exitcode[r] = 1

\* C5: entries are handled in list order and one at a time: a run has at
\* most one remote request outstanding, a request for position p is
\* outstanding only when the outcomes of positions 1..p-1 are printed, and
\* the positions submitted are strictly increasing.
C5_InOrderOneAtATime ==
  \A r \in Runs :
    /\ Cardinality({ q \in inflight : q.run = r }) <= 1
    /\ Increasing(submitted[r])
    /\ Increasing(invoked[r])
    /\ \A q \in inflight :
         q.run = r =>
           /\ Len(Outcomes(r)) = q.pos - 1
           /\ \A k \in 1..(q.pos - 1) : Outcomes(r)[k][2] = migrations[k]
           /\ q.query = Content(migrations[q.pos])
    /\ \A k \in 1..Len(Outcomes(r)) : Outcomes(r)[k][2] = migrations[k]

C5_Witness ==
  \E r \in Runs :
    /\ pc[r] = "wait"
    /\ submitted[r] = << 1, 3 >>
    /\ \E q \in inflight : q.run = r /\ q.pos = 3

\* C6: no retries: a run submits every list entry to the remote endpoint at
\* most once, whatever the answer, hence makes at most Len(migrations)
\* remote calls.
C6_NoRetry ==
  \A r \in Runs :
    /\ NoDuplicates(submitted[r])
    /\ Len(submitted[r]) <= Len(migrations)
    /\ Len(raised[r]) <= 1

C6_Witness ==
  \E r \in Runs :
    /\ pc[r] = "done" /\ exitcode[r] = 1
    /\ raised[r] = << "ConnectError" >>
    /\ submitted[r] = << 1, 2 >>

\* Index of the first Failed outcome of a run, or one past the last outcome.
FirstFailed(r) ==
  IF HasError(r)
    THEN CHOOSE k \in 1..Len(Outcomes(r)) :
           /\ Outcomes(r)[k][1] = "error"
           /\ \A j \in 1..(k - 1) : Outcomes(r)[j][1] # "error"
    ELSE Len(Outcomes(r)) + 1

\* The files found present among the entries before the first Failed one.
PresentBeforeFailure(r) ==
  { migrations[invoked[r][k]] :
      k \in { j \in 1..Len(seen[r]) : j < FirstFailed(r) /\ seen[r][j] } }

\* C7: no rollback: what the database executed for a run is never undone
\* (no step shortens it, the failing step included, and no step of a run
\* touches the directory), and a run that has ended has applied exactly the
\* files found present among the entries before its first Failed entry
\* (all present entries when nothing failed).
C7_NoRollback ==
  /\ [](\A r \in Runs :
          pc[r] = "done" =>
            { q[2] : q \in Range(db[r]) } = PresentBeforeFailure(r))
  /\ [][ /\ \A r \in Runs : IsPrefix(db[r], db'[r])
         /\ removals' = removals => disk' = disk
         /\ \A r \in Runs :
              pc[r] = "except" /\ pc'[r] # "except" =>
                db' = db /\ inflight' = inflight /\ disk' = disk ]_vars

C7_Witness ==
  \E r \in Runs :
    /\ pc[r] = "done" /\ exitcode[r] = 1
    /\ Len(db[r]) = 2
    /\ raised[r] # << >>

\* C8: when every remote call returns or raises, every run ends with exit
\* code 0 or 1, having invoked run_migration at most once per list entry;
\* for the empty list a run exits 0 with no invocation and no remote call.
C8_Terminates ==
  /\ <>[](\A r \in Runs : pc[r] = "done" /\ exitcode[r] \in {0, 1})
  /\ [](\A r \in Runs :
          /\ NoDuplicates(invoked[r])
          /\ Len(invoked[r]) <= Len(migrations)
          /\ (migrations = << >> /\ pc[r] \notin {"start", "loop"}) =>
                /\ pc[r] = "done"
                /\ exitcode[r] = 0
                /\ invoked[r] = << >>
                /\ submitted[r] = << >>
                /\ console[r] = << << "header", 0 >>, << "completed" >> >>)

C8_Witness ==
  /\ migrations = << >>
  /\ \A r \in Runs : pc[r] = "done" /\ exitcode[r] = 0 /\ invoked[r] = << >>

\* Number of positions of s holding x.
Count(s, x) == Cardinality({ k \in 1..Len(s) : s[k] = x })

\* C9: an entry is skipped exactly when its file is found absent, whatever
\* was applied before: when two runs find the same files present and no
\* call of theirs raises, each of them submits every present file once, so
\* the database executes the same migration twice.
C9_NoLedger ==
  /\ \A r \in Runs :
       \A k \in 1..Len(Outcomes(r)) :
         (Outcomes(r)[k][1] = "skipped") <=> ~ seen[r][k]
  /\ \A r1, r2 \in Runs :
       ( /\ r1 # r2
         /\ pc[r1] = "done" /\ pc[r2] = "done"
         /\ raised[r1] = << >> /\ raised[r2] = << >>
         /\ seen[r1] = seen[r2] ) =>
       \A k \in 1..Len(seen[r1]) :
         seen[r1][k] =>
           /\ Count(submitted[r1], k) = 1
           /\ Count(submitted[r2], k) = 1
           /\ Count(db[r1] \o db[r2], Content(migrations[k])) = 2

C9_Witness ==
  /\ pc[1] = "done" /\ pc[2] = "done"
  /\ exitcode[1] = 0 /\ exitcode[2] = 0
  /\ Len(db[1]) = 3
  /\ db[2] = db[1]

\* C10: a file that passes the existence check and then cannot be opened or
\* read yields a Failed outcome, not SkippedMissing: no remote call is made
\* for it, the run stops at that entry and exits 1.
C10_UnreadableFails ==
  \A r \in Runs :
    /\ \A k \in 1..Len(Outcomes(r)) :
         (seen[r][k] /\ invoked[r][k] \notin Range(submitted[r])) =>
           /\ Outcomes(r)[k][1] = "error"
           /\ Outcomes(r)[k][3] \in AllOpenErrors
           /\ Len(invoked[r]) = k
           /\ pc[r] = "done" => exitcode[r] = 1
    /\ \A k \in 1..Len(raised[r]) :
         raised[r][k] \in AllOpenErrors =>
            /\ seen[r][Len(seen[r])]
            /\ Pos(r) \notin Range(submitted[r])
            /\ pc[r] \in {"except", "check", "done"}
            /\ Len(invoked[r]) = idx[r]
            /\ pc[r] \in {"check", "done"} =>
                 /\ ~ success[r]
                 /\ Outcomes(r)[Len(Outcomes(r))] =
                      << "error", Cur(r), Str(raised[r][k]) >>
            /\ pc[r] = "done" => exitcode[r] = 1

C10_Witness ==
  \E r \in Runs :
    /\ pc[r] = "done" /\ exitcode[r] = 1
    /\ raised[r] = << "FileNotFoundError" >>
    /\ Len(submitted[r]) = 1

====
